---- MODULE Spec2Model ----
(***************************************************************************)
(* Staking-options exercise and time-boxed liquidation of mango-v4         *)
(* (Dual-Finance fork): programs/mango-v4/src/instructions/                *)
(* staking_options_exercise.rs and staking_options_liq.rs, together with   *)
(* the ledger (Bank) and health engine they call.                          *)
(*                                                                         *)
(* Amounts of type I80F48 are integers counted in 1/FP of a native token.  *)
(* Amounts of type u64 are naturals below U64_MODULUS.                     *)
(***************************************************************************)
EXTENDS Integers, Sequences, FiniteSets, TLC

\* ------------------------------------------------------------ fixed point
\* I80F48: a signed fixed-point number; the model keeps FP sub-units per 1.0.
FP == 100

\* I80F48::ONE
ONE == FP

\* I80F48::from(u64)
I80F48_from(n) == n * FP

Abs(x) == IF x < 0 THEN -x ELSE x

Min(a, b) == IF a <= b THEN a ELSE b

Max(a, b) == IF a >= b THEN a ELSE b

\* I80F48 * I80F48 for a multiplier b >= 0: the exact product, low bits dropped
\* (rounded towards minus infinity).  Split so that no intermediate exceeds
\* the magnitude of the result by more than a factor FP.
Mul(a, b) == (a \div FP) * b + ((a % FP) * b) \div FP

\* I80F48 / I80F48 for a divisor b > 0 and a >= 0, rounded down.
DivPos(a, b) == (a \div b) * FP + ((a % b) * FP) \div b

\* I80F48 / I80F48 for a divisor b > 0: the quotient rounded towards zero.
Div(a, b) == IF a >= 0 THEN DivPos(a, b) ELSE -DivPos(-a, b)

\* div_rounding_up of the ledger, for a >= 0 and b > 0: the least indexed
\* amount whose native value is at least a.
DivUp(a, b) == IF Mul(DivPos(a, b), b) >= a THEN DivPos(a, b) ELSE DivPos(a, b) + 1

\* ------------------------------------------------------------ universe
\* MangoAccount keys.
Accounts == {"A", "B"}

\* Token indices of the three banks of the group.
QUOTE == 0
BASE == 1
OPTION == 2
Tokens == {QUOTE, BASE, OPTION}

\* Pubkey::default()
DefaultKey == "default"

\* The StakingOptions state account recorded on the option bank.
SoStateKey == "so_state"

\* The vault token account recorded on each bank.
VaultKey(t) == <<"vault", t>>

\* Keys that may sign a transaction.
Signers == {"ownerA", "ownerB", "delegateA"}

\* The keys that sign an exercise.
Owners == {"ownerA", "ownerB"}

\* ------------------------------------------------------------ state
VARIABLES
    account,   \* MangoAccount data of each account key
    bank,      \* Bank data of each token index
    oracle,    \* the oracle's prices of each token index
    vault,     \* custody: the amount (u64) held by each bank's vault token account
    now,       \* Clock::get().unix_timestamp
    steps,     \* number of transactions and clock steps so far
    staking_options_state, \* the StakingOptions program's state account (lot_size)
    last,      \* the last transaction: its instruction, inputs, result and logs
    perp_market \* PerpMarket data of the group's perp market

vars == <<account, bank, oracle, vault, now, steps, staking_options_state, last,
          perp_market>>

\* ------------------------------------------------------------ ledger (Bank)
\* TokenPosition::native: the indexed position seen through the bank's
\* deposit index (positive position) or borrow index (otherwise).
native(position, b) ==
    Mul(position.indexed_position,
        IF position.indexed_position > 0 THEN b.deposit_index ELSE b.borrow_index)

\* A free token position slot.
InactivePosition == [active |-> FALSE, indexed_position |-> 0]

\* A faulty variant, for comparison: a ledger operation that cannot be done succeeds
\* and leaves the position as it was.
LedgerErr_ignored(position, b) ==
    [ok |-> TRUE, position |-> position, bank |-> b, active |-> position.active, fee |-> 0]

\* The result of a ledger operation that failed.
LedgerErr(position, b) ==
    [ok |-> FALSE, position |-> position, bank |-> b, active |-> position.active, fee |-> 0]

\* The result of a ledger operation: the new stored position, the new bank,
\* the active/inactive status returned, the loan origination fee charged.
LedgerOk(position, indexed, b, active, fee) ==
    [ok |-> TRUE, position |-> [position EXCEPT !.indexed_position = indexed],
     bank |-> b, active |-> active, fee |-> fee]

\* Bank deposit: raises the native balance by native_amount (>= 0) through the
\* current index.  allow_dusting: a result of less than one native token, reached
\* from a borrow, is zeroed and its residue moved to the bank's dust.
\* The status returned is inactive when the resulting position is zero.
deposit_internal(b, position, native_amount, allow_dusting) ==
    LET native_position == native(position, b)
        new_native_position == native_position + native_amount
        borrow_change == DivUp(native_amount, b.borrow_index)
        new_indexed_value == position.indexed_position + borrow_change
        rest == Max(new_native_position, 0)
        deposit_change == DivUp(IF native_position < 0 THEN rest ELSE native_amount,
                                b.deposit_index)
        start == IF native_position < 0 THEN 0 ELSE position.indexed_position
    IN  IF native_amount < 0 THEN LedgerErr(position, b)
        ELSE IF native_position < 0 /\ new_indexed_value < 0
             THEN LedgerOk(position, new_indexed_value, b, TRUE, 0)
        ELSE IF native_position < 0 /\ new_native_position < ONE /\ allow_dusting
             THEN LedgerOk(position, 0, [b EXCEPT !.dust = @ + rest], FALSE, 0)
        ELSE LedgerOk(position, start + deposit_change, b, start + deposit_change /= 0, 0)

\* Bank::deposit
deposit(b, position, native_amount) ==
    deposit_internal(b, position, native_amount, FALSE)

\* Bank::deposit_with_dusting
deposit_with_dusting(b, position, native_amount) ==
    deposit_internal(b, position, native_amount, TRUE)

\* Bank withdraw: lowers the native balance by native_amount (>= 0).  What
\* exceeds the deposits becomes a borrow; with_loan_origination_fee charges the
\* bank's fee rate on the new borrow, adds it to the borrow and to the bank's
\* collected fees.  allow_dusting: a remainder of less than one native token is
\* zeroed and moved to the bank's dust.
withdraw_internal(b, position, native_amount, with_loan_origination_fee, allow_dusting) ==
    LET native_position == native(position, b)
        new_native_position == native_position - native_amount
        deposit_change == Div(native_amount, b.deposit_index)
        borrowed == IF native_position >= 0 THEN -new_native_position ELSE native_amount
        start == IF native_position >= 0 THEN 0 ELSE position.indexed_position
        loan_origination_fee ==
            IF with_loan_origination_fee
            THEN Mul(borrowed, b.loan_origination_fee_rate) ELSE 0
        borrow_change == Div(borrowed + loan_origination_fee, b.borrow_index)
    IN  IF native_amount < 0 THEN LedgerErr(position, b)
        ELSE IF native_position >= 0 /\ new_native_position >= 0
             THEN IF new_native_position < ONE /\ allow_dusting
                  THEN LedgerOk(position, 0,
                                [b EXCEPT !.dust = @ + new_native_position], FALSE, 0)
                  ELSE LedgerOk(position, position.indexed_position - deposit_change, b,
                                position.indexed_position - deposit_change /= 0, 0)
        ELSE LedgerOk(position, start - borrow_change,
                      [b EXCEPT !.collected_fees_native = @ + loan_origination_fee],
                      TRUE, loan_origination_fee)

\* Bank::withdraw_with_fee
withdraw_with_fee(b, position, native_amount) ==
    withdraw_internal(b, position, native_amount, TRUE, FALSE)

\* Bank::withdraw_without_fee_with_dusting
withdraw_without_fee_with_dusting(b, position, native_amount) ==
    withdraw_internal(b, position, native_amount, FALSE, TRUE)

\* ------------------------------------------------------------ health engine
\* new_health_cache: per token with an active position, the native balance.
\* The prices are those of the oracle variable, the weights those of the banks.
new_health_cache(acct) ==
    [t \in Tokens |->
        [present |-> acct.tokens[t].active,
         balance |-> IF acct.tokens[t].active THEN native(acct.tokens[t], bank[t]) ELSE 0]]

\* Prices::asset(HealthType::Init) and Prices::liab(HealthType::Init)
prices_asset_init(t) == oracle[t].asset_init

prices_liab_init(t) == oracle[t].liab_init

\* One token's contribution to Init health.
health_contribution(t, balance) ==
    IF balance >= 0
    THEN Mul(Mul(balance, prices_asset_init(t)), bank[t].init_asset_weight)
    ELSE Mul(Mul(balance, prices_liab_init(t)), bank[t].init_liab_weight)

\* HealthCache::health(HealthType::Init)
health_init(cache) ==
    LET c(t) == IF cache[t].present THEN health_contribution(t, cache[t].balance) ELSE 0
    IN  c(QUOTE) + c(BASE) + c(OPTION)

\* compute_health(account, HealthType::Init, retriever)
compute_health(acct) == health_init(new_health_cache(acct))

\* HealthCache::adjust_token_balance: fails for a token the cache has no entry of.
adjust_token_balance(cache, t, change) ==
    [ok |-> cache[t].present,
     cache |-> [cache EXCEPT ![t].balance = @ + change]]

\* MangoAccount::check_health_post: the Init health of the adjusted cache must not
\* be below the Init health captured before the operation.
check_health_post(cache, pre_init_health) ==
    health_init(cache) >= pre_init_health

\* MangoAccountFixed::is_owner_or_delegate
is_owner_or_delegate(acct, key) ==
    acct.owner = key \/ (acct.delegate /= DefaultKey /\ acct.delegate = key)

\* ------------------------------------------------------------ u64 arithmetic
\* The modulus of u64 arithmetic.
U64_MODULUS == 4194304

\* a * b in u64.  On overflow the build either panics (overflow checks) or wraps.
u64_mul(a, b, wrapping) ==
    [ok |-> a * b < U64_MODULUS \/ wrapping, v |-> (a * b) % U64_MODULUS]

\* a - b in u64.
u64_sub(a, b, wrapping) ==
    [ok |-> a >= b \/ wrapping, v |-> (a - b) % U64_MODULUS]

\* ------------------------------------------------------------ account helpers
\* MangoAccount::deactivate_token_position_and_log: frees the slot.
deactivate_token_position_and_log(position) == [position EXCEPT !.active = FALSE]

\* MangoAccount::ensure_token_position: the position of the token, created
\* (active, zero) when the account has none.
ensure_token_position(position) ==
    IF position.active THEN position ELSE [active |-> TRUE, indexed_position |-> 0]

\* A faulty variant, for comparison: the slot is freed whatever the ledger reports.
after_ledger_freed(r) == deactivate_token_position_and_log(r.position)

\* The position stored after a ledger operation whose returned status the
\* caller acts on: the slot is freed when the ledger reports it inactive.
after_ledger(r) ==
    IF r.active THEN r.position ELSE deactivate_token_position_and_log(r.position)

\* A faulty variant, for comparison: the record carries the native balance in place of
\* the indexed position.
TokenBalanceLog_of_native(key, t, indexed_position, b) ==
    [log |-> "TokenBalanceLog", mango_account |-> key, token_index |-> t,
     indexed_position |-> Mul(indexed_position,
                              IF indexed_position > 0 THEN b.deposit_index
                              ELSE b.borrow_index),
     deposit_index |-> b.deposit_index, borrow_index |-> b.borrow_index]

\* emit!(TokenBalanceLog {..})
TokenBalanceLog(key, t, indexed_position, b) ==
    [log |-> "TokenBalanceLog", mango_account |-> key, token_index |-> t,
     indexed_position |-> indexed_position,
     deposit_index |-> b.deposit_index, borrow_index |-> b.borrow_index]

\* ------------------------------------------------------------ exercise
\* What an instruction hands back: its result, the account and bank data as the
\* handler left them in memory (kept by the runtime only if status is "Ok"),
\* and what it computed and logged on the way.
IxResult(status, accts, banks, info) ==
    [status |-> status, account |-> accts, bank |-> banks, info |-> info]

NoInfo == [logs |-> <<>>]

\* A faulty variant, for comparison: the check of the vault amounts without the check
\* of the option vault.
vault_deltas_check_base_quote(before, after, amount, strike, base_atoms_per_option, wrapping) ==
    LET base_delta == u64_sub(after[BASE], before[BASE], wrapping)
        base_amount == u64_mul(amount, base_atoms_per_option, wrapping)
        quote_delta == u64_sub(before[QUOTE], after[QUOTE], wrapping)
        quote_amount == u64_mul(amount, strike, wrapping)
    IN  IF ~base_delta.ok \/ ~base_amount.ok THEN "Panic"
        ELSE IF base_delta.v /= base_amount.v THEN "StakingOptionsError"
        ELSE IF ~quote_delta.ok \/ ~quote_amount.ok THEN "Panic"
        ELSE IF quote_delta.v /= quote_amount.v THEN "StakingOptionsError"
        ELSE "Ok"

\* A faulty variant, for comparison: a wrong vault amount reported with the error of
\* the failed requirements.
vault_deltas_check_some_error(before, after, amount, strike, base_atoms_per_option, wrapping) ==
    LET base_delta == u64_sub(after[BASE], before[BASE], wrapping)
        base_amount == u64_mul(amount, base_atoms_per_option, wrapping)
        quote_delta == u64_sub(before[QUOTE], after[QUOTE], wrapping)
        quote_amount == u64_mul(amount, strike, wrapping)
        option_delta == u64_sub(before[OPTION], after[OPTION], wrapping)
    IN  IF ~base_delta.ok \/ ~base_amount.ok THEN "Panic"
        ELSE IF base_delta.v /= base_amount.v THEN "SomeError"
        ELSE IF ~quote_delta.ok \/ ~quote_amount.ok THEN "Panic"
        ELSE IF quote_delta.v /= quote_amount.v THEN "SomeError"
        ELSE IF ~option_delta.ok THEN "Panic"
        ELSE IF option_delta.v /= amount THEN "SomeError"
        ELSE "Ok"

\* The check of the vault amounts read before and after the external call
\* against amount * lot_size, amount * strike and amount, in u64.
vault_deltas_check(before, after, amount, strike, base_atoms_per_option, wrapping) ==
    LET base_delta == u64_sub(after[BASE], before[BASE], wrapping)
        base_amount == u64_mul(amount, base_atoms_per_option, wrapping)
        quote_delta == u64_sub(before[QUOTE], after[QUOTE], wrapping)
        quote_amount == u64_mul(amount, strike, wrapping)
        option_delta == u64_sub(before[OPTION], after[OPTION], wrapping)
    IN  IF ~base_delta.ok \/ ~base_amount.ok THEN "Panic"
        ELSE IF base_delta.v /= base_amount.v THEN "StakingOptionsError"
        ELSE IF ~quote_delta.ok \/ ~quote_amount.ok THEN "Panic"
        ELSE IF quote_delta.v /= quote_amount.v THEN "StakingOptionsError"
        ELSE IF ~option_delta.ok THEN "Panic"
        ELSE IF option_delta.v /= amount THEN "StakingOptionsError"
        ELSE "Ok"

\* The health check after an exercise: the cache taken before it, adjusted by the
\* three amounts of the exercise, against the Init health taken before it.
exercise_health_post(health_cache, pre_init_health, base_amount, quote_amount, amount) ==
    LET c1 == adjust_token_balance(health_cache, BASE, I80F48_from(base_amount))
        c2 == adjust_token_balance(c1.cache, QUOTE, -I80F48_from(quote_amount))
        c3 == adjust_token_balance(c2.cache, OPTION, -I80F48_from(amount))
    IN  [status |-> IF ~(c1.ok /\ c2.ok /\ c3.ok) THEN "TokenPositionDoesNotExist"
                    ELSE IF ~check_health_post(c3.cache, pre_init_health)
                         THEN "HealthMustBePositiveOrIncrease"
                    ELSE "Ok",
         pre_init_health |-> pre_init_health,
         post_init_health |-> health_init(c3.cache)]

\* A faulty variant, for comparison: the base deposit without the lot size.
base_deposit_amount_in_options(amount, base_atoms_per_option, wrapping) == amount

\* The native amount of the base deposit: amount * base_atoms_per_option in u64.
base_deposit_amount(amount, base_atoms_per_option, wrapping) ==
    u64_mul(amount, base_atoms_per_option, wrapping).v

\* The update of the banks and of the account's three token positions: the base
\* deposit, the quote withdrawal with loan origination fee, the option withdrawal
\* without fee and with dusting; a position the ledger reports inactive is freed.
\* Hands back the account and banks as the last step reached left them.
exercise_update_positions(acct0, banks, base_amount, quote_amount, amount) ==
    LET r_base == deposit(banks[BASE], acct0.tokens[BASE], I80F48_from(base_amount))
        acct1 == [acct0 EXCEPT !.tokens[BASE] = r_base.position]
        bank1 == [banks EXCEPT ![BASE] = r_base.bank]
        r_quote == withdraw_with_fee(banks[QUOTE], acct0.tokens[QUOTE],
                                     I80F48_from(quote_amount))
        acct2 == [acct1 EXCEPT !.tokens[QUOTE] = after_ledger(r_quote)]
        bank2 == [bank1 EXCEPT ![QUOTE] = r_quote.bank]
        r_option == withdraw_without_fee_with_dusting(banks[OPTION], acct0.tokens[OPTION],
                                                      I80F48_from(amount))
        acct3 == [acct2 EXCEPT !.tokens[OPTION] = after_ledger(r_option)]
        bank3 == [bank2 EXCEPT ![OPTION] = r_option.bank]
        at(status, acct, bks) ==
            [status |-> status, account |-> acct, bank |-> bks,
             base_indexed_position |-> r_base.position.indexed_position,
             quote_indexed_position |-> r_quote.position.indexed_position,
             option_indexed_position |-> r_option.position.indexed_position,
             loan_origination_fee |-> r_quote.fee]
    IN  IF ~acct0.tokens[BASE].active THEN at("TokenPositionDoesNotExist", acct0, banks)
        ELSE IF ~r_base.ok THEN at("LedgerError", acct0, banks)
        ELSE IF ~acct0.tokens[QUOTE].active THEN at("TokenPositionDoesNotExist", acct1, bank1)
        ELSE IF ~r_quote.ok THEN at("LedgerError", acct1, bank1)
        ELSE IF ~acct0.tokens[OPTION].active THEN at("TokenPositionDoesNotExist", acct2, bank2)
        ELSE IF ~r_option.ok THEN at("LedgerError", acct2, bank2)
        ELSE at("Ok", acct3, bank3)

\* A faulty variant, for comparison: the vaults presented are not compared with
\* those of the banks.
bindings_check_state_only(ix) ==
    IF bank[OPTION].staking_options_state = DefaultKey THEN "RequireKeysNeqViolated"
    ELSE IF bank[OPTION].staking_options_state /= ix.staking_options_state
         THEN "RequireKeysEqViolated"
    ELSE "Ok"

\* The requirements on the accounts presented to an exercise: the option bank
\* records a StakingOptions state, it is the state presented, and the three
\* vaults presented are those of the banks.
bindings_check(ix) ==
    IF bank[OPTION].staking_options_state = DefaultKey THEN "RequireKeysNeqViolated"
    ELSE IF bank[OPTION].staking_options_state /= ix.staking_options_state
            \/ ix.base_vault /= bank[BASE].vault
            \/ ix.option_vault /= bank[OPTION].vault
            \/ ix.quote_vault /= bank[QUOTE].vault
         THEN "RequireKeysEqViolated"
    ELSE "Ok"

\* A faulty variant, for comparison: the positions are updated before the vault
\* amounts are checked.
positions_written_before_check(acct0, updated_account) == updated_account

\* The account's positions when the check of the vault amounts fails: the update
\* of the positions follows the check, so they are as they were.
positions_at_vault_check(acct0, updated_account) == acct0

\* staking_options_exercise(ctx, amount, strike), with the accounts the caller
\* presents in ix, the external StakingOptions program's answer in cpi (whether it
\* accepted, and the vault amounts it left), and the build's overflow behaviour.
staking_options_exercise(ix, cpi, wrapping) ==
    LET a == ix.account
        acct0 == account[a]
        health_cache == new_health_cache(acct0)
        pre_init_health == health_init(health_cache)
        has_pre_health == ~acct0.in_health_region
        base_atoms_per_option == staking_options_state.lot_size
        base_amount == u64_mul(ix.amount, base_atoms_per_option, wrapping).v
        quote_amount == u64_mul(ix.amount, ix.strike, wrapping).v
        \* what follows the external call: checked is the result of the check of the
        \* vault amounts, updated that of the update of the positions, health that
        \* of the health check
        after_cpi(checked, updated, health) ==
            LET logs == << TokenBalanceLog(a, BASE, updated.base_indexed_position,
                                           updated.bank[BASE]),
                           TokenBalanceLog(a, QUOTE, updated.quote_indexed_position,
                                           updated.bank[QUOTE]),
                           TokenBalanceLog(a, OPTION, updated.option_indexed_position,
                                           updated.bank[OPTION]),
                           [log |-> "StakingOptionExerciseLog", mango_account |-> a,
                            amount |-> ix.amount,
                            staking_options_state |-> ix.staking_options_state] >>
                info == [logs |-> <<>>, vault_check |-> checked,
                         pre_init_health |-> health.pre_init_health,
                         post_init_health |-> health.post_init_health,
                         loan_origination_fee |-> updated.loan_origination_fee]
                at(status, acct, banks) ==
                    IxResult(status, [account EXCEPT ![a] = acct], banks, info)
            IN  IF checked /= "Ok"
                THEN at(checked, positions_at_vault_check(acct0, updated.account), bank)
                ELSE IF updated.status /= "Ok"
                     THEN at(updated.status, updated.account, updated.bank)
                ELSE IF has_pre_health /\ health.status /= "Ok"
                     THEN at(health.status, updated.account, updated.bank)
                ELSE IxResult("Ok", [account EXCEPT ![a] = updated.account], updated.bank,
                              [info EXCEPT !.logs = logs])
        rejected(status) == IxResult(status, account, bank, NoInfo)
    IN  IF acct0.frozen THEN rejected("AccountIsFrozen")
        ELSE IF bindings_check(ix) /= "Ok" THEN rejected(bindings_check(ix))
        ELSE IF ~cpi.ok THEN rejected("CpiError")
        ELSE after_cpi(vault_deltas_check(vault, cpi.after, ix.amount, ix.strike,
                                          base_atoms_per_option, wrapping),
                       exercise_update_positions(
                           acct0, bank,
                           base_deposit_amount(ix.amount, base_atoms_per_option, wrapping),
                           quote_amount, ix.amount),
                       exercise_health_post(health_cache, pre_init_health,
                                            base_amount, quote_amount, ix.amount))

\* ------------------------------------------------------------ liquidation
\* The expiring-asset window of liquidation_action: 60 * 60 seconds.
EXPIRY_WINDOW == 3600

\* A faulty variant, for comparison: the window counted as 60 seconds.
expires_within_minute(staking_options_expiration, now_ts, wrapping) ==
    LET time_remaining == u64_sub(staking_options_expiration, now_ts, wrapping)
    IN  [status |-> IF ~(staking_options_expiration > 0) THEN "StakingOptionsError"
                    ELSE IF ~time_remaining.ok THEN "Panic"
                    ELSE IF ~(time_remaining.v < 60) THEN "StakingOptionsError"
                    ELSE "Ok",
         time_remaining |-> time_remaining.v]

\* A faulty variant, for comparison: the time remaining as a signed difference.
expires_within_window_signed(staking_options_expiration, now_ts, wrapping) ==
    LET time_remaining == staking_options_expiration - now_ts
    IN  [status |-> IF ~(staking_options_expiration > 0) THEN "StakingOptionsError"
                    ELSE IF ~(time_remaining < EXPIRY_WINDOW) THEN "StakingOptionsError"
                    ELSE "Ok",
         time_remaining |-> time_remaining]

\* The asset bank must be of a staking option that expires within the hour:
\* the result of the two requirements on the asset bank's expiration.
expires_within_window(staking_options_expiration, now_ts, wrapping) ==
    LET time_remaining == u64_sub(staking_options_expiration, now_ts, wrapping)
    IN  [status |-> IF ~(staking_options_expiration > 0) THEN "StakingOptionsError"
                    ELSE IF ~time_remaining.ok THEN "Panic"
                    ELSE IF ~(time_remaining.v < EXPIRY_WINDOW) THEN "StakingOptionsError"
                    ELSE "Ok",
         time_remaining |-> time_remaining.v]

\* A faulty variant, for comparison: the asset given up without the conversion at the
\* adjusted price.
asset_transfer_at_par(liab_transfer, liab_oracle_price_adjusted, asset_oracle_price) ==
    liab_transfer

\* The amount of asset native tokens given up for liab_transfer.
asset_transfer_for(liab_transfer, liab_oracle_price_adjusted, asset_oracle_price) ==
    Div(Mul(liab_transfer, liab_oracle_price_adjusted), asset_oracle_price)

\* A faulty variant, for comparison: the liqee's liability lowered further instead of
\* repaid.
liqee_liab_change_withdrawn(liab_bank, liqee_liab_position, liab_transfer) ==
    withdraw_with_fee(liab_bank, liqee_liab_position, liab_transfer)

\* A faulty variant, for comparison: the liqee's liability is left as it was.
liqee_liab_change_skipped(liab_bank, liqee_liab_position, liab_transfer) ==
    LedgerOk(liqee_liab_position, liqee_liab_position.indexed_position, liab_bank,
             liqee_liab_position.active, 0)

\* The change of the liqee's liability position: liab_transfer is deposited.
liqee_liab_change(liab_bank, liqee_liab_position, liab_transfer) ==
    deposit_with_dusting(liab_bank, liqee_liab_position, liab_transfer)

\* A faulty variant, for comparison: the amount needed without the liability's
\* Init weight.
liab_needed_unweighted(liqee_liq_end_health, liab_liq_end_price, init_liab_weight) ==
    Div(-liqee_liq_end_health, liab_liq_end_price)

\* The amount of liab native tokens that brings the liqee's Init health to zero
\* when the asset given up counts nothing.
liab_needed_for(liqee_liq_end_health, liab_liq_end_price, init_liab_weight) ==
    Div(-liqee_liq_end_health, Mul(liab_liq_end_price, init_liab_weight))

\* What the rounding of liab_needed and of the health contributions can change of
\* the Init health that a liability of token t contributes.
health_rounding(t) ==
    Mul(prices_liab_init(t), bank[t].init_liab_weight) \div FP + 2

\* A faulty variant, for comparison: the health cache adjusted by the size of the
\* transfer.
native_delta_nominal(native_after, native_before, transfer) == transfer

\* The change of a balance of the liqee by which its health cache is adjusted: the
\* native balance after the ledger calls less the native balance before them.
native_delta(native_after, native_before, transfer) == native_after - native_before

\* A faulty variant, for comparison: the transfer size without regard to what the
\* liqee owes and what its asset balance can pay for.
liab_transfer_ignoring_balances(liab_needed, liqee_liab_native, liab_possible, max_liab_transfer) ==
    Min(liab_needed, max_liab_transfer)

\* A faulty variant, for comparison: the transfer size without the caller's cap.
liab_transfer_uncapped(liab_needed, liqee_liab_native, liab_possible, max_liab_transfer) ==
    Min(Min(liab_needed, -liqee_liab_native), liab_possible)

\* The amount of liab native tokens transferred: the least of what is needed, what
\* the liqee owes, what its asset balance can pay for, and the caller's cap.
liab_transfer_for(liab_needed, liqee_liab_native, liab_possible, max_liab_transfer) ==
    Min(Min(Min(liab_needed, -liqee_liab_native), liab_possible), max_liab_transfer)

\* A faulty variant, for comparison: the liqee's positions checked without the
\* requirement of a negative liability balance.
liqee_positions_check_asset_only(liqee_asset_position, asset_bank, liqee_liab_position, liab_bank) ==
    IF ~liqee_asset_position.active THEN "TokenPositionDoesNotExist"
    ELSE IF ~(native(liqee_asset_position, asset_bank) > 0) THEN "SomeError"
    ELSE IF ~liqee_liab_position.active THEN "TokenPositionDoesNotExist"
    ELSE "Ok"

\* The liqee must hold a position of the asset token with a positive native
\* balance and a position of the liability token with a negative one.
liqee_positions_check(liqee_asset_position, asset_bank, liqee_liab_position, liab_bank) ==
    IF ~liqee_asset_position.active THEN "TokenPositionDoesNotExist"
    ELSE IF ~(native(liqee_asset_position, asset_bank) > 0) THEN "SomeError"
    ELSE IF ~liqee_liab_position.active THEN "TokenPositionDoesNotExist"
    ELSE IF ~(native(liqee_liab_position, liab_bank) < 0) THEN "SomeError"
    ELSE "Ok"

\* liquidation_action(..): moves liab_transfer of the liability token from the
\* liqor to the liqee and asset_transfer of the asset token from the liqee to the
\* liqor, and adjusts the liqee's health cache by the measured changes.
\* A faulty variant, for comparison: a write that also marks the account as being
\* liquidated, as token_liq_with_token does with its liqee.
token_position_mut_marking(acct, token_index, position) ==
    [acct EXCEPT !.tokens[token_index] = position, !.being_liquidated = TRUE]

\* The write of a token position of an account: the position of the token index
\* is replaced, and nothing else of the account is.
token_position_mut(acct, token_index, position) ==
    [acct EXCEPT !.tokens[token_index] = position]

liquidation_action(liab_token_index, asset_token_index, liqor_key, liqee_key, liqee_health_cache, liqee_liq_end_health, now_ts, max_liab_transfer, wrapping) ==
    LET liqor0 == account[liqor_key]
        liqee0 == account[liqee_key]
        asset_bank == bank[asset_token_index]
        liab_bank == bank[liab_token_index]
        asset_oracle_price == oracle[asset_token_index].oracle
        liab_oracle_price == oracle[liab_token_index].oracle
        window == expires_within_window(asset_bank.staking_options_expiration, now_ts,
                                        wrapping)
        positions == liqee_positions_check(liqee0.tokens[asset_token_index], asset_bank,
                                           liqee0.tokens[liab_token_index], liab_bank)
        liqee_asset_native == native(liqee0.tokens[asset_token_index], asset_bank)
        liqee_liab_native == native(liqee0.tokens[liab_token_index], liab_bank)
        fee_factor == ONE + liab_bank.liquidation_fee
        liab_oracle_price_adjusted == Mul(liab_oracle_price, fee_factor)
        init_liab_weight == liab_bank.init_liab_weight
        liab_liq_end_price == prices_liab_init(liab_token_index)
        divisor == Mul(liab_liq_end_price, init_liab_weight)
        liab_needed == liab_needed_for(liqee_liq_end_health, liab_liq_end_price,
                                       init_liab_weight)
        liab_possible == Div(Mul(liqee_asset_native, asset_oracle_price),
                             liab_oracle_price_adjusted)
        liab_transfer == liab_transfer_for(liab_needed, liqee_liab_native, liab_possible,
                                           max_liab_transfer)
        asset_transfer == asset_transfer_for(liab_transfer, liab_oracle_price_adjusted,
                                             asset_oracle_price)
        \* the four balance changes
        r_liqee_liab == liqee_liab_change(liab_bank, liqee0.tokens[liab_token_index],
                                          liab_transfer)
        r_liqor_liab == withdraw_with_fee(r_liqee_liab.bank,
                            ensure_token_position(liqor0.tokens[liab_token_index]),
                            liab_transfer)
        liqee_liab_native_after == native(r_liqee_liab.position, r_liqor_liab.bank)
        r_liqor_asset == deposit(asset_bank,
                            ensure_token_position(liqor0.tokens[asset_token_index]),
                            asset_transfer)
        r_liqee_asset == withdraw_without_fee_with_dusting(r_liqor_asset.bank,
                            liqee0.tokens[asset_token_index], asset_transfer)
        liqee_assets_native_after == native(r_liqee_asset.position, r_liqee_asset.bank)
        \* the accounts and banks as each step leaves them
        liqee1 == token_position_mut(liqee0, liab_token_index, r_liqee_liab.position)
        bank1 == [bank EXCEPT ![liab_token_index] = r_liqee_liab.bank]
        liqor2 == token_position_mut(liqor0, liab_token_index, r_liqor_liab.position)
        bank2 == [bank EXCEPT ![liab_token_index] = r_liqor_liab.bank]
        liqor3 == token_position_mut(liqor2, asset_token_index, r_liqor_asset.position)
        bank3 == [bank2 EXCEPT ![asset_token_index] = r_liqor_asset.bank]
        liqee4 == token_position_mut(liqee1, asset_token_index, r_liqee_asset.position)
        bank4 == [bank2 EXCEPT ![asset_token_index] = r_liqee_asset.bank]
        c1 == adjust_token_balance(liqee_health_cache, liab_token_index,
                  native_delta(liqee_liab_native_after, liqee_liab_native, liab_transfer))
        c2 == adjust_token_balance(c1.cache, asset_token_index,
                  native_delta(liqee_assets_native_after, liqee_asset_native,
                               -asset_transfer))
        \* deactivation of the positions the ledger reported inactive
        liqee5 == token_position_mut(
                      token_position_mut(liqee4, asset_token_index, after_ledger(r_liqee_asset)),
                      liab_token_index, after_ledger(r_liqee_liab))
        liqor5 == token_position_mut(
                      token_position_mut(liqor3, asset_token_index, after_ledger(r_liqor_asset)),
                      liab_token_index, after_ledger(r_liqor_liab))
        logs == << TokenBalanceLog(liqee_key, asset_token_index,
                                   r_liqee_asset.position.indexed_position, bank4[asset_token_index]),
                   TokenBalanceLog(liqee_key, liab_token_index,
                                   r_liqee_liab.position.indexed_position, bank4[liab_token_index]),
                   TokenBalanceLog(liqor_key, asset_token_index,
                                   r_liqor_asset.position.indexed_position, bank4[asset_token_index]),
                   TokenBalanceLog(liqor_key, liab_token_index,
                                   r_liqor_liab.position.indexed_position, bank4[liab_token_index]),
                   [log |-> "StakingOptionsLiqLog", liqee |-> liqee_key, liqor |-> liqor_key,
                    asset_token_index |-> asset_token_index,
                    liab_token_index |-> liab_token_index,
                    asset_transfer |-> asset_transfer, liab_transfer |-> liab_transfer,
                    asset_price |-> asset_oracle_price, liab_price |-> liab_oracle_price] >>
        info0 == [logs |-> <<>>, time_remaining |-> window.time_remaining,
                  liqee_liq_end_health |-> liqee_liq_end_health]
        info1 == [logs |-> <<>>, time_remaining |-> window.time_remaining,
                  liqee_liq_end_health |-> liqee_liq_end_health,
                  liqee_liab_native |-> liqee_liab_native,
                  liab_needed |-> liab_needed, liab_possible |-> liab_possible,
                  liab_transfer |-> liab_transfer, asset_transfer |-> asset_transfer]
        at(status, liqor, liqee, banks, info) ==
            [status |-> status,
             account |-> [account EXCEPT ![liqor_key] = liqor, ![liqee_key] = liqee],
             bank |-> banks, info |-> info, liqee_health_cache |-> liqee_health_cache]
    IN  IF window.status /= "Ok" THEN at(window.status, liqor0, liqee0, bank, info0)
        ELSE IF positions /= "Ok" THEN at(positions, liqor0, liqee0, bank, info0)
        ELSE IF divisor = 0 THEN at("Panic", liqor0, liqee0, bank, info0)
        ELSE IF ~r_liqee_liab.ok THEN at("LedgerError", liqor0, liqee0, bank, info1)
        ELSE IF ~r_liqor_liab.ok THEN at("LedgerError", liqor0, liqee1, bank1, info1)
        ELSE IF ~r_liqor_asset.ok THEN at("LedgerError", liqor2, liqee1, bank2, info1)
        ELSE IF ~r_liqee_asset.ok THEN at("LedgerError", liqor3, liqee1, bank3, info1)
        ELSE [status |-> "Ok",
              account |-> [account EXCEPT ![liqor_key] = liqor5, ![liqee_key] = liqee5],
              bank |-> bank4, info |-> [info1 EXCEPT !.logs = logs],
              liqee_health_cache |-> c2.cache]

\* A faulty variant, for comparison: the check of the liqor's health without the
\* exemption of a liqor in a health region.
liqor_health_check_no_exemption(liqor) == compute_health(liqor) >= 0

\* A faulty variant, for comparison: no check of the liqor's health.
liqor_health_unchecked(liqor) == TRUE

\* The check of the liqor's health after the action: its Init health, computed
\* from its positions, must not be negative; a liqor in a health region is exempt.
liqor_health_check(liqor) ==
    liqor.in_health_region \/ compute_health(liqor) >= 0

\* A faulty variant, for comparison: the preconditions without the check of the
\* signer against the liqor's owner and delegate.
liq_preconditions_any_signer(ix) ==
    IF account[ix.liqor].frozen \/ account[ix.liqee].frozen THEN "AccountIsFrozen"
    ELSE IF ix.asset_token_index = ix.liab_token_index THEN "SomeError"
    ELSE IF ix.liqor = ix.liqee THEN "RequireKeysNeqViolated"
    ELSE "Ok"

\* The preconditions of staking_options_liq: both accounts operational, distinct
\* token indexes, distinct accounts, the signer the liqor's owner or delegate.
liq_preconditions(ix) ==
    IF account[ix.liqor].frozen \/ account[ix.liqee].frozen THEN "AccountIsFrozen"
    ELSE IF ix.asset_token_index = ix.liab_token_index THEN "SomeError"
    ELSE IF ix.liqor = ix.liqee THEN "RequireKeysNeqViolated"
    ELSE IF ~is_owner_or_delegate(account[ix.liqor], ix.liqor_owner) THEN "SomeError"
    ELSE "Ok"

\* staking_options_liq(ctx, asset_token_index, liab_token_index, max_liab_transfer)
staking_options_liq(ix, wrapping) ==
    LET liqee0 == account[ix.liqee]
        preconditions == liq_preconditions(ix)
        liqee_health_cache == new_health_cache(liqee0)
        liqee_liq_end_health == health_init(liqee_health_cache)
        \* what follows the call of liquidation_action, r being what it handed back
        after_action(r) ==
            LET liqor_health == compute_health(r.account[ix.liqor])
                info == [x \in DOMAIN r.info \cup {"liqor_health", "liqee_health_after",
                                                    "liqee_health_cache"} |->
                            IF x = "liqor_health" THEN liqor_health
                            ELSE IF x = "liqee_health_cache" THEN r.liqee_health_cache
                            ELSE IF x = "liqee_health_after"
                                 THEN health_init(r.liqee_health_cache)
                            ELSE r.info[x]]
            IN  IF r.status /= "Ok" THEN IxResult(r.status, r.account, r.bank, r.info)
                ELSE IF ~liqor_health_check(r.account[ix.liqor])
                     THEN IxResult("HealthMustBePositive", r.account, r.bank,
                                   [info EXCEPT !.logs = <<>>])
                ELSE IxResult("Ok", r.account, r.bank, info)
    IN  IF preconditions /= "Ok" THEN IxResult(preconditions, account, bank, NoInfo)
        ELSE after_action(liquidation_action(ix.liab_token_index, ix.asset_token_index,
                                             ix.liqor, ix.liqee, liqee_health_cache,
                                             liqee_liq_end_health, now, ix.max_liab_transfer,
                                             wrapping))

\* ------------------------------------------------------------ perp market
\* Option<T>: None, or Some(v).  None carries a value of the type that is never
\* read.
Some(v) == [some |-> TRUE, v |-> v]

None(v) == [some |-> FALSE, v |-> v]

\* An f32 is modelled by its kind and, if finite, its value in 1/F32_UNIT; "max"
\* is f32::MAX, a finite value beyond the range of I80F48.
F32_UNIT == 1000

F32(milli) == [kind |-> "finite", milli |-> milli]

F32_NAN == [kind |-> "nan", milli |-> 0]

F32_MAX == [kind |-> "max", milli |-> 0]

\* I80F48::from_num(f32): a value that is not finite panics; a value out of range
\* panics in a build with debug assertions and wraps (f32::MAX wraps to zero)
\* in one without; any other value is rounded to the nearest representable
\* number, ties to even.
from_num(x, wrapping) ==
    LET per == F32_UNIT \div FP
        q == x.milli \div per
        r == x.milli % per
        nearest == IF 2 * r < per THEN q
                   ELSE IF 2 * r > per THEN q + 1
                   ELSE IF q % 2 = 0 THEN q ELSE q + 1
    IN  IF x.kind = "nan" THEN [ok |-> FALSE, v |-> 0]
        ELSE IF x.kind = "max" THEN [ok |-> wrapping, v |-> 0]
        ELSE [ok |-> TRUE, v |-> nearest]

\* The fields of PerpMarket that perp_edit_market lists as unchanged.
UnchangedFields ==
    { "name", "group", "bids", "asks", "event_queue", "quote_lot_size", "base_lot_size",
      "long_funding", "short_funding", "funding_last_updated", "open_interest",
      "seq_num", "fees_accrued", "bump", "perp_market_index", "quote_token_index" }

\* The fields of PerpMarket assigned from an f32 parameter.
F32Fields ==
    { "maint_asset_weight", "init_asset_weight", "maint_liab_weight", "init_liab_weight",
      "liquidation_fee", "maker_fee", "taker_fee", "min_funding", "max_funding" }

\* The fields of PerpMarket assigned from a parameter of the field's own type.
PlainFields ==
    { "oracle", "oracle_config", "base_token_index", "base_token_decimals",
      "impact_quantity" }

\* What perp_register_market is given for the fields an edit can change.
DefaultRegistration ==
    [oracle |-> "oracle1", conf_filter |-> 10, base_token_index |-> BASE,
     base_token_decimals |-> 6, weight |-> 90, impact_quantity |-> 100]

OtherRegistration ==
    [oracle |-> "oracle2", conf_filter |-> 20, base_token_index |-> OPTION,
     base_token_decimals |-> 9, weight |-> 80, impact_quantity |-> 0]

\* A PerpMarket as perp_register_market leaves it, after some trading.
RegisteredMarket(reg) ==
    [name |-> "PERP", group |-> "group",
     oracle |-> reg.oracle, oracle_config |-> [conf_filter |-> reg.conf_filter],
     bids |-> "bids", asks |-> "asks", event_queue |-> "event_queue",
     quote_lot_size |-> 10, base_lot_size |-> 100,
     maint_asset_weight |-> reg.weight + 5, init_asset_weight |-> reg.weight,
     maint_liab_weight |-> 2 * FP - reg.weight - 5, init_liab_weight |-> 2 * FP - reg.weight,
     liquidation_fee |-> 2, maker_fee |-> 0, taker_fee |-> 1,
     min_funding |-> -5, max_funding |-> 5, impact_quantity |-> reg.impact_quantity,
     long_funding |-> 3, short_funding |-> -3, funding_last_updated |-> 99000,
     open_interest |-> 7, seq_num |-> 4, fees_accrued |-> 12, bump |-> 254,
     base_token_decimals |-> reg.base_token_decimals, perp_market_index |-> 0,
     base_token_index |-> reg.base_token_index, quote_token_index |-> QUOTE]

\* The groups and their admins.
GroupAdmin(group) == IF group = "group" THEN "admin" ELSE "ownerA"

\* The constraints of the accounts of PerpEditMarket: the admin is the group's,
\* the perp market is the group's.
PerpEditMarket_accounts(ix) ==
    IF GroupAdmin(ix.group) /= ix.admin THEN "ConstraintHasOne"
    ELSE IF perp_market.group /= ix.group THEN "ConstraintHasOne"
    ELSE "Ok"

\* A faulty variant, for comparison: the assignment without the test of the
\* parameter, so that an absent parameter overwrites the field.
assign_always(market, field, opt, value) == [market EXCEPT ![field] = value]

\* if let Some(x) = x_opt { perp_market.field = x; }
assign_if_some(market, field, opt, value) ==
    IF opt.some THEN [market EXCEPT ![field] = value] ELSE market

\* perp_edit_market(ctx, oracle_opt, ..., impact_quantity_opt): the assignments in
\* the order of the code; a conversion that panics aborts the instruction.
perp_edit_market(ix, wrapping) ==
    LET a == ix.args
        num(opt) == from_num(opt.v, wrapping)
        m1 == assign_if_some(perp_market, "oracle", a.oracle_opt, a.oracle_opt.v)
        m2 == assign_if_some(m1, "oracle_config", a.oracle_config_opt, a.oracle_config_opt.v)
        m3 == assign_if_some(m2, "maint_asset_weight", a.maint_asset_weight_opt,
                             num(a.maint_asset_weight_opt).v)
        m4 == assign_if_some(m3, "init_asset_weight", a.init_asset_weight_opt,
                             num(a.init_asset_weight_opt).v)
        m5 == assign_if_some(m4, "maint_liab_weight", a.maint_liab_weight_opt,
                             num(a.maint_liab_weight_opt).v)
        m6 == assign_if_some(m5, "init_liab_weight", a.init_liab_weight_opt,
                             num(a.init_liab_weight_opt).v)
        m7 == assign_if_some(m6, "liquidation_fee", a.liquidation_fee_opt,
                             num(a.liquidation_fee_opt).v)
        m8 == assign_if_some(m7, "maker_fee", a.maker_fee_opt, num(a.maker_fee_opt).v)
        m9 == assign_if_some(m8, "taker_fee", a.taker_fee_opt, num(a.taker_fee_opt).v)
        m10 == assign_if_some(m9, "min_funding", a.min_funding_opt, num(a.min_funding_opt).v)
        m11 == assign_if_some(m10, "max_funding", a.max_funding_opt, num(a.max_funding_opt).v)
        m12 == assign_if_some(m11, "impact_quantity", a.impact_quantity_opt,
                              a.impact_quantity_opt.v)
        m13 == assign_if_some(m12, "base_token_decimals", a.base_token_decimals_opt,
                              a.base_token_decimals_opt.v)
        m14 == assign_if_some(m13, "base_token_index", a.base_token_index_opt,
                              a.base_token_index_opt.v)
        converted == \A opt \in { a.maint_asset_weight_opt, a.init_asset_weight_opt,
                                  a.maint_liab_weight_opt, a.init_liab_weight_opt,
                                  a.liquidation_fee_opt, a.maker_fee_opt, a.taker_fee_opt,
                                  a.min_funding_opt, a.max_funding_opt } :
                         opt.some => num(opt).ok
        accounts == PerpEditMarket_accounts(ix)
    IN  IF accounts /= "Ok" THEN [status |-> accounts, perp_market |-> perp_market]
        ELSE IF ~converted THEN [status |-> "Panic", perp_market |-> perp_market]
        ELSE [status |-> "Ok", perp_market |-> m14]

\* ------------------------------------------------------------ bounds and inputs
\* Transactions committed and seconds passed, from an initial state.
MaxSteps == 2

\* The initial unix time.
StartTime == 100000

\* A bank as the group's administration set it up.  Weights, fees and prices in
\* 1/FP; the ledger's accumulators start empty.
Bank(t, index, asset_weight, liab_weight, expiration) ==
    [token_index |-> t,
     deposit_index |-> index, borrow_index |-> index,
     init_asset_weight |-> asset_weight, init_liab_weight |-> liab_weight,
     liquidation_fee |-> 2, loan_origination_fee_rate |-> 1,
     staking_options_expiration |-> expiration,
     staking_options_state |-> IF t = OPTION /\ expiration > 0 THEN SoStateKey
                               ELSE DefaultKey,
     vault |-> VaultKey(t),
     collected_fees_native |-> 0, dust |-> 0]

Price(oracle_price, asset_init, liab_init) ==
    [oracle |-> oracle_price, asset_init |-> asset_init, liab_init |-> liab_init]

\* A holding is <<>> (no position) or <<native balance in 1/FP of a token>>.
NoPosition == <<>>

\* Holdings of the two accounts (QUOTE, BASE, OPTION), the vaults' amounts and the
\* StakingOptions lot size.
\* The liquidation test: a borrow of 350 against 1000 of the expiring token.
LiqTest ==
    [A |-> << <<-35000>>, NoPosition, <<100000>> >>,
     B |-> << <<10000000>>, NoPosition, <<10000000>> >>,
     vault |-> <<99650, 0, 101000>>, lot_size |-> 1000000]

\* The exercise test: 1,000,000 of each token.
ExerciseTest ==
    [A |-> << <<100000000>>, <<100000000>>, <<100000000>> >>,
     B |-> << NoPosition, NoPosition, NoPosition >>,
     vault |-> <<1000000, 1000000, 1000000>>, lot_size |-> 1000000]

\* Small holdings with fractional option balances.
Small ==
    [A |-> << <<500>>, <<100>>, <<150>> >>,
     B |-> << <<300>>, <<200>>, <<350>> >>,
     vault |-> <<8, 3, 5>>, lot_size |-> 4]

\* A liqor that holds none of the liability token.
LiqorBorrows ==
    [A |-> << <<-35000>>, NoPosition, <<100000>> >>,
     B |-> << NoPosition, <<60000>>, NoPosition >>,
     vault |-> <<1000, 600, 1000>>, lot_size |-> 4]

\* A liqee whose asset leaves a residue below one token.
LiqeeResidue ==
    [A |-> << <<-35000>>, NoPosition, <<35750>> >>,
     B |-> << <<100000>>, NoPosition, <<50>> >>,
     vault |-> <<650, 0, 358>>, lot_size |-> 4]

\* A liqee whose asset is worth less than its borrow.
LiqeeUnderwater ==
    [A |-> << <<-35000>>, NoPosition, <<10000>> >>,
     B |-> << <<100000>>, NoPosition, NoPosition >>,
     vault |-> <<650, 0, 100>>, lot_size |-> 4]

\* Positions that are in use with a balance of zero: the liqee's liability, the
\* liqor's asset.
LiqeeZero ==
    [A |-> << <<0>>, NoPosition, <<100000>> >>,
     B |-> << <<10000000>>, NoPosition, <<0>> >>,
     vault |-> <<100000, 0, 1000>>, lot_size |-> 4]

\* A liqee whose Init health is exactly zero: a borrow of 300 at liab weight 1.4
\* against 700 of the base token at asset weight 0.6.
LiqeeAtThreshold ==
    [A |-> << <<-30000>>, <<70000>>, <<100000>> >>,
     B |-> << <<10000000>>, NoPosition, <<10000000>> >>,
     vault |-> <<99700, 700, 101000>>, lot_size |-> 1000000]

\* A liqee short of Init health although its asset counts: a borrow of 350
\* against 300 of the expiring token.
LiqeeShort ==
    [A |-> << <<-35000>>, NoPosition, <<30000>> >>,
     B |-> << <<10000000>>, NoPosition, <<10000000>> >>,
     vault |-> <<99650, 0, 100300>>, lot_size |-> 1000000]

\* A liqee whose other collateral covers most of its borrow: a borrow of 350
\* against 700 of the base token and 1000 of the expiring token.
LiqeePartlyCovered ==
    [A |-> << <<-35000>>, <<70000>>, <<100000>> >>,
     B |-> << <<10000000>>, NoPosition, <<10000000>> >>,
     vault |-> <<99650, 700, 101000>>, lot_size |-> 1000000]

\* Risk parameters: the option token's Init asset weight and prices, the quote
\* token's Init liab weight, the index of the quote bank.
Risk(option_weight, option_price, quote_liab_weight, quote_index) ==
    [option_weight |-> option_weight, option_price |-> option_price,
     quote_liab_weight |-> quote_liab_weight, quote_index |-> quote_index]

\* The expiring token counts nothing towards Init health.
RiskTest == Risk(0, Price(100, 100, 100), 140, 100)

\* The expiring token counts like any other, at a price the health engine haircuts.
RiskWeighted == Risk(60, Price(200, 190, 210), 140, 100)

\* Asset and liability at par.
RiskPar == Risk(100, Price(100, 100, 100), 100, 100)

\* The quote bank's index has grown to 2.
RiskIndexed == Risk(0, Price(100, 100, 100), 140, 200)

Normal == [health_region |-> {}, frozen |-> {}]

Start(holdings, risk, expiration, mode) ==
    [holdings |-> holdings, risk |-> risk, expiration |-> expiration, mode |-> mode]

\* The initial states: holdings, risk parameters, the option bank's expiration
\* (0: unset) and the accounts in a health region or frozen.
Starts ==
    { Start(LiqTest, RiskTest, StartTime + 600, Normal),
      Start(LiqTest, RiskTest, StartTime + EXPIRY_WINDOW, Normal),
      Start(LiqTest, RiskTest, StartTime + EXPIRY_WINDOW + 1, Normal),
      Start(LiqTest, RiskTest, StartTime, Normal),
      Start(LiqTest, RiskTest, 0, Normal),
      Start(LiqTest, RiskIndexed, StartTime + 600, Normal),
      Start(ExerciseTest, RiskTest, StartTime + 600, Normal),
      Start(Small, RiskTest, StartTime + 600, Normal),
      Start(Small, RiskWeighted, StartTime + 600, Normal),
      Start(Small, RiskIndexed, StartTime + 600, Normal),
      Start(Small, RiskWeighted, StartTime + 600, [health_region |-> {"A"}, frozen |-> {}]),
      Start(LiqorBorrows, RiskTest, StartTime + 600, Normal),
      Start(LiqorBorrows, RiskTest, StartTime + 600, [health_region |-> {"B"}, frozen |-> {}]),
      Start(LiqeeResidue, RiskTest, StartTime + 600, Normal),
      Start(LiqeeUnderwater, RiskPar, StartTime + 600, Normal),
      Start(LiqeeZero, RiskTest, StartTime + 600, Normal),
      Start(LiqeeAtThreshold, RiskTest, StartTime + 600, Normal),
      Start(LiqeeShort, RiskWeighted, StartTime + 600, Normal),
      Start(LiqeePartlyCovered, RiskTest, StartTime + 600, Normal),
      Start(Small, RiskTest, StartTime + 600, [health_region |-> {}, frozen |-> {"B"}]) }

\* The stored position of a native balance under an index.
PositionOf(balance, index) ==
    IF balance = NoPosition THEN InactivePosition
    ELSE [active |-> TRUE, indexed_position |-> Div(balance[1], index)]

MangoAccount(key, holdings, risk, mode) ==
    [owner |-> IF key = "A" THEN "ownerA" ELSE "ownerB",
     delegate |-> IF key = "A" THEN "delegateA" ELSE DefaultKey,
     frozen |-> key \in mode.frozen,
     being_liquidated |-> FALSE,
     in_health_region |-> key \in mode.health_region,
     tokens |-> [t \in Tokens |->
                    PositionOf(holdings[t + 1], IF t = QUOTE THEN risk.quote_index ELSE FP)]]

\* The state of the accounts, banks and vaults after the setup s.
InitOf(s) ==
        /\ account = [a \in Accounts |-> MangoAccount(a, s.holdings[a], s.risk, s.mode)]
        /\ bank = [t \in Tokens |->
                      Bank(t, IF t = QUOTE THEN s.risk.quote_index ELSE FP,
                           IF t = OPTION THEN s.risk.option_weight ELSE 60,
                           IF t = QUOTE THEN s.risk.quote_liab_weight ELSE 140,
                           IF t = OPTION THEN s.expiration ELSE 0)]
        /\ oracle = [t \in Tokens |->
                        IF t = OPTION THEN s.risk.option_price ELSE Price(100, 100, 100)]
        /\ vault = [t \in Tokens |-> s.holdings.vault[t + 1]]
        /\ now = StartTime
        /\ steps = 0
        /\ staking_options_state = [lot_size |-> s.holdings.lot_size]
        /\ last = [op |-> "none", status |-> "Ok"]

Init ==
    /\ \E s \in Starts : InitOf(s)
    /\ perp_market = RegisteredMarket(DefaultRegistration)

\* ------------------------------------------------------------ inputs of a call
\* <<amount, strike>> of an exercise.
ExerciseArgs ==
    { <<1, 1000000>>, <<0, 2>>, <<1, 2>>, <<3, 2>>, <<1, 5>>, <<4, 1048576>> }

\* The accounts an exercise may present: those recorded on the banks, or one
\* other account in place of one of them.
RightAccounts ==
    [staking_options_state |-> SoStateKey, base_vault |-> VaultKey(BASE),
     quote_vault |-> VaultKey(QUOTE), option_vault |-> VaultKey(OPTION)]

WrongAccounts ==
    { [RightAccounts EXCEPT !.staking_options_state = "other_state"],
      [RightAccounts EXCEPT !.base_vault = <<"other", 0>>],
      [RightAccounts EXCEPT !.quote_vault = <<"other", 0>>],
      [RightAccounts EXCEPT !.option_vault = <<"other", 0>>] }

\* What the external program did to the vaults (QUOTE, BASE, OPTION) for
\* exercise(amount, strike): the contractual change, or a change that is short,
\* missing, or equal to the contractual one only modulo 2^64.
CpiDeltas(amount, strike) ==
    LET e == amount * staking_options_state.lot_size
        s == amount * strike
    IN  { <<-s, e, -amount>>,
          <<-s, e - 1, -amount>>, <<-s - 1, e, -amount>>, <<-s, e, 0>>,
          <<0, 0, 0>>,
          <<-(s % U64_MODULUS), e % U64_MODULUS, -amount>>,
          <<-s, e - U64_MODULUS, -amount>>, <<U64_MODULUS - s, e, -amount>> }

\* The external program's answers: a rejection, or the vault amounts it left.
CpiAnswers(amount, strike) ==
    { [ok |-> FALSE, after |-> vault] } \cup
    { [ok |-> TRUE, after |-> [t \in Tokens |-> vault[t] + d[t + 1]]] :
        d \in { x \in CpiDeltas(amount, strike) :
                  \A t \in Tokens : vault[t] + x[t + 1] \in 0..(U64_MODULUS - 1) } }

\* The contractual answer.
CpiExact(amount, strike, cpi) ==
    /\ cpi.ok
    /\ cpi.after[BASE] - vault[BASE] = amount * staking_options_state.lot_size
    /\ vault[QUOTE] - cpi.after[QUOTE] = amount * strike
    /\ vault[OPTION] - cpi.after[OPTION] = amount

\* <<asset_token_index, liab_token_index>> of a liquidation.
LiqPairs == { <<OPTION, QUOTE>>, <<QUOTE, OPTION>>, <<BASE, QUOTE>>, <<OPTION, OPTION>> }

\* max_liab_transfer of a liquidation, in 1/FP.
MaxLiabTransfers == { 0, 100, 10000, 100000, -100 }

\* ------------------------------------------------------------ transactions
\* A faulty variant, for comparison: the runtime keeps what a failed instruction
\* wrote.
Commit_failed_writes(r, vault_after) ==
    /\ account' = r.account
    /\ bank' = r.bank
    /\ vault' = IF r.status = "Ok" THEN vault_after ELSE vault

\* The runtime keeps what an instruction wrote only if it returned Ok.
Commit(r, vault_after) ==
    IF r.status = "Ok"
    THEN /\ account' = r.account
         /\ bank' = r.bank
         /\ vault' = vault_after
    ELSE UNCHANGED <<account, bank, vault>>

\* A run is followed up to its first rejected transaction: the runtime drops what
\* that transaction wrote, so the runs that go on after it pass through the states
\* of the runs without it.
Running == steps < MaxSteps /\ last.status = "Ok"

\* The build's treatment of u64 overflow is not fixed by the sources: with
\* overflow checks the instruction panics, without them it goes on with the
\* wrapped value.  The two builds differ only where the checked one panics.
Builds(checked, unchecked) ==
    IF checked.status = "Panic" THEN {checked, unchecked} ELSE {checked}

StakingOptionsExercise ==
    /\ Running
    /\ \E a \in Accounts, signer \in Owners, args \in ExerciseArgs :
         \E presented \in {RightAccounts} \cup WrongAccounts :
           \E cpi \in (IF presented = RightAccounts
                       THEN CpiAnswers(args[1], args[2])
                       ELSE { [ok |-> TRUE,
                               after |-> [t \in Tokens |-> vault[t]]] }) :
             LET ix == [account |-> a, owner |-> signer, amount |-> args[1],
                        strike |-> args[2],
                        staking_options_state |-> presented.staking_options_state,
                        base_vault |-> presented.base_vault,
                        quote_vault |-> presented.quote_vault,
                        option_vault |-> presented.option_vault]
             IN  \E r \in Builds(staking_options_exercise(ix, cpi, FALSE),
                                 staking_options_exercise(ix, cpi, TRUE)) :
                   /\ Commit(r, cpi.after)
                   /\ last' = [op |-> "staking_options_exercise", status |-> r.status,
                               ix |-> ix, info |-> r.info,
                               cpi_exact |-> CpiExact(args[1], args[2], cpi),
                               dirty |-> r.account /= account \/ r.bank /= bank]
    /\ steps' = steps + 1
    /\ UNCHANGED <<oracle, now, staking_options_state, perp_market>>

StakingOptionsLiq ==
    /\ Running
    /\ \E liqor \in Accounts, liqee \in Accounts, signer \in Signers, pair \in LiqPairs,
          max_liab_transfer \in MaxLiabTransfers :
         LET ix == [liqor |-> liqor, liqee |-> liqee, liqor_owner |-> signer,
                    asset_token_index |-> pair[1], liab_token_index |-> pair[2],
                    max_liab_transfer |-> max_liab_transfer]
         IN  \E r \in Builds(staking_options_liq(ix, FALSE), staking_options_liq(ix, TRUE)) :
               /\ Commit(r, vault)
               /\ last' = [op |-> "staking_options_liq", status |-> r.status,
                           ix |-> ix, info |-> r.info,
                           dirty |-> r.account /= account \/ r.bank /= bank]
    /\ steps' = steps + 1
    /\ UNCHANGED <<oracle, now, staking_options_state, perp_market>>

\* A second passes.
AdvanceClock ==
    /\ Running
    /\ now' = now + 1
    /\ steps' = steps + 1
    /\ last' = [op |-> "advance_clock", status |-> "Ok"]
    /\ UNCHANGED <<account, bank, oracle, vault, staking_options_state, perp_market>>

Next == StakingOptionsExercise \/ StakingOptionsLiq \/ AdvanceClock

Spec == Init /\ [][Next]_vars

\* ------------------------------------------------------------ perp market edits
\* A call of perp_edit_market with every parameter absent.
NoArgs ==
    [oracle_opt |-> None(DefaultKey), oracle_config_opt |-> None([conf_filter |-> 0]),
     base_token_index_opt |-> None(0), base_token_decimals_opt |-> None(0),
     maint_asset_weight_opt |-> None(F32(0)), init_asset_weight_opt |-> None(F32(0)),
     maint_liab_weight_opt |-> None(F32(0)), init_liab_weight_opt |-> None(F32(0)),
     liquidation_fee_opt |-> None(F32(0)), maker_fee_opt |-> None(F32(0)),
     taker_fee_opt |-> None(F32(0)), min_funding_opt |-> None(F32(0)),
     max_funding_opt |-> None(F32(0)), impact_quantity_opt |-> None(0)]

\* A call with every parameter present, the f32 parameters being x.
AllArgs(x) ==
    [oracle_opt |-> Some("oracle3"), oracle_config_opt |-> Some([conf_filter |-> 30]),
     base_token_index_opt |-> Some(QUOTE), base_token_decimals_opt |-> Some(8),
     maint_asset_weight_opt |-> Some(x), init_asset_weight_opt |-> Some(x),
     maint_liab_weight_opt |-> Some(x), init_liab_weight_opt |-> Some(x),
     liquidation_fee_opt |-> Some(x), maker_fee_opt |-> Some(x),
     taker_fee_opt |-> Some(x), min_funding_opt |-> Some(x),
     max_funding_opt |-> Some(x), impact_quantity_opt |-> Some(-1)]

\* The f32 values passed: exact, rounded down, a tie, negative, not a number and
\* out of range.
F32Values == { F32(1500), F32(1004), F32(1015), F32(-15), F32_NAN, F32_MAX }

\* The parameters of a call: none, one, or all of them.
EditArgs ==
    {NoArgs}
    \cup { [NoArgs EXCEPT ![f \o "_opt"] = Some(x)] : f \in F32Fields, x \in F32Values }
    \cup { [NoArgs EXCEPT !.oracle_opt = Some(k)] : k \in {"oracle1", "oracle2"} }
    \cup { [NoArgs EXCEPT !.oracle_config_opt = Some([conf_filter |-> 20])] }
    \cup { [NoArgs EXCEPT !.base_token_index_opt = Some(t)] : t \in {BASE, OPTION} }
    \cup { [NoArgs EXCEPT !.base_token_decimals_opt = Some(d)] : d \in {0, 9} }
    \cup { [NoArgs EXCEPT !.impact_quantity_opt = Some(n)] : n \in {0, 100} }
    \cup { AllArgs(F32(1500)), AllArgs(F32_NAN) }

\* The calls: by the group's admin, and by a key that is not, for this group
\* and for its own.
PerpEdits ==
    { [args |-> a, admin |-> "admin", group |-> "group"] : a \in EditArgs }
    \cup { [args |-> AllArgs(F32(1500)), admin |-> "ownerA", group |-> g] :
               g \in {"group", "other_group"} }

\* The runtime keeps what perp_edit_market wrote only if it returned Ok.
CommitMarket(r) ==
    perp_market' = IF r.status = "Ok" THEN r.perp_market ELSE perp_market

PerpEditMarket ==
    /\ Running
    /\ \E ix \in PerpEdits :
         \E r \in Builds(perp_edit_market(ix, FALSE), perp_edit_market(ix, TRUE)) :
           /\ CommitMarket(r)
           /\ last' = [op |-> "perp_edit_market", status |-> r.status, ix |-> ix]
    /\ steps' = steps + 1
    /\ UNCHANGED <<account, bank, oracle, vault, now, staking_options_state>>

\* The perp market on its own: the market as registered, and its edits.
PerpInit ==
    /\ InitOf(Start(LiqTest, RiskTest, StartTime + 600, Normal))
    /\ perp_market \in {RegisteredMarket(DefaultRegistration),
                        RegisteredMarket(OtherRegistration)}

PerpNext == PerpEditMarket

PerpSpec == PerpInit /\ [][PerpNext]_vars

\* ------------------------------------------------------------ what a state shows
\* The native balance an account holds of a token: that of its active position.
balance(a, t) ==
    IF account[a].tokens[t].active THEN native(account[a].tokens[t], bank[t]) ELSE 0

\* The native balances of all accounts in a token.
total_native(t) == balance("A", t) + balance("B", t)

\* What the bank's ledger holds of a token for itself: fees and dust.
bank_native(t) == bank[t].collected_fees_native + bank[t].dust

\* What the ledger's books of a token hold: the accounts' balances and the bank's.
ledger_native(t) == total_native(t) + bank_native(t)

\* What the ledger operations of one transaction can lose to the rounding of the
\* indexed positions of a bank: nothing at an index of one.
ledger_rounding(b) ==
    IF b.deposit_index = ONE /\ b.borrow_index = ONE THEN 0
    ELSE 2 * (Max(b.deposit_index, b.borrow_index) \div FP + 1)

\* a and b, native amounts in 1/FP that differ by less than 2^64 tokens or so, are
\* equal modulo 2^64 tokens, up to r.
equal_mod_u64(a, b, r) ==
    \E k \in {-1, 0, 1} : Abs(a - b - k * I80F48_from(U64_MODULUS)) <= r

\* The last transaction was a committed exercise / liquidation.
ExerciseCommitted == last.op = "staking_options_exercise" /\ last.status = "Ok"

LiqCommitted == last.op = "staking_options_liq" /\ last.status = "Ok"

\* ------------------------------------------------------------ properties
\* C1 (as stated): every step changes the sum of the accounts' native balances of
\* each token by what moved in or out of the token's vault, up to the rounding of
\* the indexed positions.
C1_AccountsEqualCustody ==
    [][\A t \in Tokens :
         Abs((total_native(t)' - total_native(t)) - I80F48_from(vault'[t] - vault[t]))
            <= ledger_rounding(bank[t])]_vars

\* C1 (amended): every step changes the sum of the accounts' native balances, the
\* bank's collected fees and the bank's dust of each token by what moved in or out
\* of the token's vault, modulo 2^64 and up to the rounding of the indexed positions.
C1_LedgerEqualsCustody ==
    [][\A t \in Tokens :
         equal_mod_u64(ledger_native(t)' - ledger_native(t),
                       I80F48_from(vault'[t] - vault[t]),
                       ledger_rounding(bank[t]))]_vars

\* C1 witness: an exercise that opened a borrow and paid a loan origination fee,
\* and dusted the rest of the option position, has committed.
C1_Witness ==
    /\ ExerciseCommitted
    /\ last.info.loan_origination_fee > 0
    /\ bank[OPTION].dust > 0

\* C2: an exercise whose external call did not change the three vaults by exactly
\* amount * lot_size, amount * strike and amount does not commit.
C2_SettlementIntegrity ==
    last.op = "staking_options_exercise" /\ ~last.cpi_exact => last.status /= "Ok"

\* C2 witness: an exercise whose external call left a wrong vault amount was
\* rejected by the check of the vault amounts.
C2_Witness ==
    /\ last.op = "staking_options_exercise"
    /\ ~last.cpi_exact
    /\ last.status = "StakingOptionsError"

\* C3: after a committed exercise on an account that is not in a health region,
\* the account's Init health is not below the Init health taken before it.
C3_ExerciseNonRegression ==
    ExerciseCommitted /\ ~account[last.ix.account].in_health_region
        => compute_health(account[last.ix.account]) >= last.info.pre_init_health

\* C3 witness: an exercise was rejected by the health check after its positions
\* had been updated.
C3_Witness ==
    /\ last.op = "staking_options_exercise"
    /\ last.status = "HealthMustBePositiveOrIncrease"
    /\ last.dirty

\* C4: after a committed liquidation whose liqor is not in a health region, the
\* liqor's Init health, computed from its positions, is not negative.
C4_LiquidatorNonImpairment ==
    LiqCommitted /\ ~account[last.ix.liqor].in_health_region
        => compute_health(account[last.ix.liqor]) >= 0

\* C4 witness: a liquidation has committed that left its liqor, not in a health
\* region, with a borrow of the liability token.
C4_Witness ==
    /\ LiqCommitted
    /\ ~account[last.ix.liqor].in_health_region
    /\ balance(last.ix.liqor, last.ix.liab_token_index) < 0

C6_WindowBoundary ==
    [][\A t \in Tokens :
         (/\ last'.op = "staking_options_liq"
          /\ "time_remaining" \in DOMAIN last'.info
          /\ last'.ix.asset_token_index = t)
         => LET remaining == bank[t].staking_options_expiration - now
            IN  /\ remaining >= EXPIRY_WINDOW + 1
                     => /\ last'.status = "StakingOptionsError"
                        /\ UNCHANGED <<account, bank, vault>>
                /\ remaining \in 1..(EXPIRY_WINDOW - 1)
                     => last'.status \notin {"StakingOptionsError", "Panic"}]_vars

\* C6 witness: a liquidation has committed with 3599 seconds remaining.
C6_Witness ==
    /\ LiqCommitted
    /\ bank[last.ix.asset_token_index].staking_options_expiration - now = EXPIRY_WINDOW - 1

\* C7: a liquidation commits only for an asset bank whose expiration is set and
\* is not earlier than the current time.
C7_FutureExpirationOnly ==
    LiqCommitted =>
        /\ bank[last.ix.asset_token_index].staking_options_expiration > 0
        /\ bank[last.ix.asset_token_index].staking_options_expiration >= now

\* C7 witness: a liquidation of an asset that had expired was attempted on a
\* build without overflow checks and rejected on the wrapped time remaining.
C7_Witness ==
    /\ last.op = "staking_options_liq"
    /\ "time_remaining" \in DOMAIN last.info
    /\ bank[last.ix.asset_token_index].staking_options_expiration \in 1..(now - 1)
    /\ last.status = "StakingOptionsError"

asset_for_liab(liab_transfer, asset, liab) ==
    Div(Mul(liab_transfer, Mul(oracle[liab].oracle, ONE + bank[liab].liquidation_fee)),
        oracle[asset].oracle)

\* C9 (as stated): a committed liquidation raises the liqee's liability balance by
\* liab_transfer, lowers its asset balance by asset_transfer = liab_transfer *
\* liab_oracle_price * (1 + liquidation_fee) / asset_oracle_price, and changes the
\* liqor's balances by the opposite amounts.
C9_LiquidationResult ==
    [][\A liqee \in Accounts, liqor \in Accounts, asset \in Tokens, liab \in Tokens :
         (/\ last'.op = "staking_options_liq" /\ last'.status = "Ok"
          /\ last'.ix.liqee = liqee /\ last'.ix.liqor = liqor
          /\ last'.ix.asset_token_index = asset /\ last'.ix.liab_token_index = liab)
         => LET liab_transfer == last'.info.liab_transfer
                asset_transfer == asset_for_liab(liab_transfer, asset, liab)
            IN  /\ balance(liqee, liab)' - balance(liqee, liab) = liab_transfer
                /\ balance(liqee, asset)' - balance(liqee, asset) = -asset_transfer
                /\ balance(liqor, liab)' - balance(liqor, liab) = -liab_transfer
                /\ balance(liqor, asset)' - balance(liqor, asset) = asset_transfer]_vars

\* C9 (amended): a committed liquidation raises the liqee's liability balance by
\* liab_transfer and lowers its asset balance by asset_transfer (as above) and by
\* what was dusted of it; it lowers the liqor's liability balance by liab_transfer
\* and by the loan origination fee charged, and raises the liqor's asset balance by
\* asset_transfer; each up to the rounding of the indexed positions.
C9_LiquidationResultWithFeeAndDust ==
    [][\A liqee \in Accounts, liqor \in Accounts, asset \in Tokens, liab \in Tokens :
         (/\ last'.op = "staking_options_liq" /\ last'.status = "Ok"
          /\ last'.ix.liqee = liqee /\ last'.ix.liqor = liqor
          /\ last'.ix.asset_token_index = asset /\ last'.ix.liab_token_index = liab)
         => LET liab_transfer == last'.info.liab_transfer
                asset_transfer == asset_for_liab(liab_transfer, asset, liab)
                fee == bank'[liab].collected_fees_native - bank[liab].collected_fees_native
                dusted == bank'[asset].dust - bank[asset].dust
            IN  /\ last'.info.asset_transfer = asset_transfer
                /\ Abs((balance(liqee, liab)' - balance(liqee, liab)) - liab_transfer)
                      <= ledger_rounding(bank[liab])
                /\ Abs((balance(liqee, asset)' - balance(liqee, asset))
                        + asset_transfer + dusted) <= ledger_rounding(bank[asset])
                /\ Abs((balance(liqor, liab)' - balance(liqor, liab))
                        + liab_transfer + fee) <= ledger_rounding(bank[liab])
                /\ Abs((balance(liqor, asset)' - balance(liqor, asset)) - asset_transfer)
                      <= ledger_rounding(bank[asset])]_vars

\* C9 witness: the liquidation of collateral 1000 and borrow -350 by a liqor
\* holding 100000 of each has left the liqee with collateral 643 and no borrow,
\* and the liqor with 99650 of the liability token and 100357 of the asset token.
C9_Witness ==
    /\ LiqCommitted
    /\ last.ix.asset_token_index = OPTION /\ last.ix.liab_token_index = QUOTE
    /\ balance(last.ix.liqee, OPTION) = I80F48_from(643)
    /\ balance(last.ix.liqee, QUOTE) = 0
    /\ balance(last.ix.liqor, QUOTE) = I80F48_from(99650)
    /\ balance(last.ix.liqor, OPTION) = I80F48_from(100357)

C11_OwnershipGate ==
    [][\A a \in Accounts :
         (/\ last'.op = "staking_options_exercise"
          /\ last'.ix.account = a
          /\ account'[a] /= account[a])
         => /\ ~account[a].frozen
            /\ is_owner_or_delegate(account[a], last'.ix.owner)]_vars

\* C11 witness: an exercise on a frozen account was rejected.
C11_Witness ==
    /\ last.op = "staking_options_exercise"
    /\ account[last.ix.account].frozen
    /\ last.status = "AccountIsFrozen"

\* C12: a liquidation whose liqor and liqee are the same account, or whose asset
\* and liability token indexes are equal, or whose liqor is frozen, or whose
\* signer is neither the liqor's owner nor its delegate, is rejected and changes
\* nothing.
C12_LiquidationPreconditions ==
    [][\A liqor \in Accounts :
         (/\ last'.op = "staking_options_liq"
          /\ last'.ix.liqor = liqor
          /\ \/ last'.ix.liqee = liqor
             \/ last'.ix.asset_token_index = last'.ix.liab_token_index
             \/ account[liqor].frozen
             \/ ~is_owner_or_delegate(account[liqor], last'.ix.liqor_owner))
         => /\ last'.status \notin {"Ok", "Panic"}
            /\ UNCHANGED <<account, bank, vault>>]_vars

\* C12 witness: a liquidation between two distinct operational accounts on two
\* distinct tokens, signed by a key that is neither the liqor's owner nor its
\* delegate, was rejected.
C12_Witness ==
    /\ last.op = "staking_options_liq"
    /\ last.ix.liqor /= last.ix.liqee
    /\ last.ix.asset_token_index /= last.ix.liab_token_index
    /\ ~account[last.ix.liqor].frozen /\ ~account[last.ix.liqee].frozen
    /\ ~is_owner_or_delegate(account[last.ix.liqor], last.ix.liqor_owner)
    /\ last.status = "SomeError"

C14_TransferSizing ==
    [][\A liqee \in Accounts, asset \in Tokens, liab \in Tokens :
         (/\ last'.op = "staking_options_liq"
          /\ "liab_transfer" \in DOMAIN last'.info
          /\ last'.ix.liqee = liqee
          /\ last'.ix.asset_token_index = asset /\ last'.ix.liab_token_index = liab)
         => LET H0 == compute_health(account[liqee])
                needed == Div(-H0, Mul(oracle[liab].liab_init, bank[liab].init_liab_weight))
                owed == Abs(balance(liqee, liab))
                possible == Div(Mul(balance(liqee, asset), oracle[asset].oracle),
                                Mul(oracle[liab].oracle, ONE + bank[liab].liquidation_fee))
                cap == last'.ix.max_liab_transfer
            IN  /\ last'.info.liab_transfer = Min(Min(Min(needed, owed), possible), cap)
                /\ last'.info.liab_transfer <= cap]_vars

\* C14 witness: a liquidation has committed whose transfer was the caller's cap,
\* below what was needed, owed and possible.
C14_Witness ==
    /\ LiqCommitted
    /\ last.info.liab_transfer = last.ix.max_liab_transfer
    /\ last.info.liab_transfer > 0
    /\ last.info.liab_needed > last.ix.max_liab_transfer
    /\ last.info.liab_possible > last.ix.max_liab_transfer

\* C15: an exercise on an account in a health region is never rejected by the
\* health check, and a liquidation by a liqor in a health region is never
\* rejected by the check of the liqor's health; for an account not in a health
\* region the checks run: a committed exercise passed the check of the adjusted
\* health cache against the health taken before, and a committed liquidation left
\* the liqor's Init health not negative.
C15_HealthRegionExemption ==
    /\ (last.op = "staking_options_exercise" /\ account[last.ix.account].in_health_region)
          => last.status /= "HealthMustBePositiveOrIncrease"
    /\ (last.op = "staking_options_liq" /\ account[last.ix.liqor].in_health_region)
          => last.status /= "HealthMustBePositive"
    /\ (ExerciseCommitted /\ ~account[last.ix.account].in_health_region)
          => last.info.post_init_health >= last.info.pre_init_health
    /\ (LiqCommitted /\ ~account[last.ix.liqor].in_health_region)
          => compute_health(account[last.ix.liqor]) >= 0

\* C15 witness: a liquidation by a liqor in a health region has committed and left
\* the liqor's Init health negative.
C15_Witness ==
    /\ LiqCommitted
    /\ account[last.ix.liqor].in_health_region
    /\ compute_health(account[last.ix.liqor]) < 0

\* C16: a liquidation that passed the preconditions, the window check and the
\* check of the liqee's positions (asset positive, liability negative), called
\* with a positive max_liab_transfer while the liqee's Init health was zero or
\* more, is not rejected, except by the check of the liqor's own health.
C16_EarlyInvocation ==
    (/\ last.op = "staking_options_liq"
     /\ "liab_needed" \in DOMAIN last.info
     /\ last.ix.max_liab_transfer > 0
     /\ last.info.liqee_liq_end_health >= 0)
    => last.status \in {"Ok", "HealthMustBePositive"}

\* C16 witness: a liquidation of a liqee whose Init health was exactly zero has
\* committed, with nothing transferred.
C16_Witness ==
    /\ LiqCommitted
    /\ last.ix.max_liab_transfer > 0
    /\ last.info.liqee_liq_end_health = 0
    /\ last.info.liab_transfer = 0

\* C17: an exercise on an account whose option position is not active is rejected
\* and changes nothing; a committed exercise on an account whose option balance
\* was not negative leaves it not negative, and when it leaves the balance at
\* zero (a remainder below one token is dusted to zero) the option position is
\* no longer active.
C17_DustingIdempotence ==
    [][\A a \in Accounts :
         (/\ last'.op = "staking_options_exercise"
          /\ last'.ix.account = a)
         => LET before == account[a].tokens[OPTION]
                after == account'[a].tokens[OPTION]
            IN  /\ ~before.active
                      => /\ last'.status /= "Ok"
                         /\ UNCHANGED <<account, bank, vault>>
                /\ (last'.status = "Ok" /\ native(before, bank[OPTION]) >= 0)
                      => native(after, bank'[OPTION]) >= 0
                /\ (last'.status = "Ok" /\ native(after, bank'[OPTION]) = 0)
                      => ~after.active]_vars

\* C17 witness: an exercise on an account that holds base and quote positions
\* and whose option position is not active was rejected, after a remainder of
\* the option token had been dusted.
C17_Witness ==
    /\ last.op = "staking_options_exercise"
    /\ last.status = "TokenPositionDoesNotExist"
    /\ account[last.ix.account].tokens[BASE].active
    /\ account[last.ix.account].tokens[QUOTE].active
    /\ ~account[last.ix.account].tokens[OPTION].active
    /\ bank[OPTION].dust > 0

IntegrityErrors ==
    { vault_deltas_check([t \in Tokens |-> 1], after, amount, 1, 1, wrapping) :
          after \in [Tokens -> 0..2], amount \in 0..1, wrapping \in BOOLEAN }
      \ {"Ok", "Panic"}

\* The last transaction failed a precondition: a liquidation one of the
\* requirements on its accounts and token indexes, or the requirement on the
\* signs of the liqee's positions inside the window; an exercise the requirements
\* on the StakingOptions state and the three vaults presented.
PreconditionFailure ==
    \/ /\ last.op = "staking_options_liq"
       /\ last.status /= "Ok"
       /\ \/ liq_preconditions(last.ix) /= "Ok"
          \/ /\ "time_remaining" \in DOMAIN last.info
             /\ \A w \in BOOLEAN :
                  expires_within_window(
                      bank[last.ix.asset_token_index].staking_options_expiration,
                      now, w).status = "Ok"
             /\ liqee_positions_check(
                    account[last.ix.liqee].tokens[last.ix.asset_token_index],
                    bank[last.ix.asset_token_index],
                    account[last.ix.liqee].tokens[last.ix.liab_token_index],
                    bank[last.ix.liab_token_index]) /= "Ok"
    \/ /\ last.op = "staking_options_exercise"
       /\ last.status /= "Ok"
       /\ ~account[last.ix.account].frozen
       /\ \/ bank[OPTION].staking_options_state = DefaultKey
          \/ bank[OPTION].staking_options_state /= last.ix.staking_options_state
          \/ last.ix.base_vault /= bank[BASE].vault
          \/ last.ix.option_vault /= bank[OPTION].vault
          \/ last.ix.quote_vault /= bank[QUOTE].vault

\* The last transaction was a liquidation that passed the preconditions and
\* failed the requirement on the asset bank's expiration.
WindowFailure ==
    /\ last.op = "staking_options_liq"
    /\ last.status \notin {"Ok", "Panic"}
    /\ liq_preconditions(last.ix) = "Ok"
    /\ "time_remaining" \in DOMAIN last.info
    /\ \E w \in BOOLEAN :
         expires_within_window(bank[last.ix.asset_token_index].staking_options_expiration,
                               now, w).status \notin {"Ok", "Panic"}

C20_AuditEmission ==
    [][LET logs == last'.info.logs
           balance_records(a, t) ==
               { i \in 1..Len(logs) :
                   /\ logs[i].log = "TokenBalanceLog"
                   /\ logs[i].mango_account = a
                   /\ logs[i].token_index = t }
           balance_recorded(a, t) ==
               /\ Cardinality(balance_records(a, t)) = 1
               /\ \A i \in balance_records(a, t) :
                    /\ logs[i].indexed_position = account'[a].tokens[t].indexed_position
                    /\ logs[i].deposit_index = bank'[t].deposit_index
                    /\ logs[i].borrow_index = bank'[t].borrow_index
       IN  /\ (last'.op = "staking_options_exercise" /\ last'.status = "Ok")
                => /\ Len(logs) = 4
                   /\ \A t \in Tokens : balance_recorded(last'.ix.account, t)
                   /\ \E i \in 1..Len(logs) :
                        /\ logs[i].log = "StakingOptionExerciseLog"
                        /\ logs[i].mango_account = last'.ix.account
                        /\ logs[i].amount = last'.ix.amount
           /\ (last'.op = "staking_options_liq" /\ last'.status = "Ok")
                => /\ Len(logs) = 5
                   /\ \A a \in {last'.ix.liqee, last'.ix.liqor} :
                        \A t \in {last'.ix.asset_token_index, last'.ix.liab_token_index} :
                          balance_recorded(a, t)
                   /\ \E i \in 1..Len(logs) :
                        /\ logs[i].log = "StakingOptionsLiqLog"
                        /\ logs[i].liqee = last'.ix.liqee
                        /\ logs[i].liqor = last'.ix.liqor
                        /\ logs[i].liab_transfer = last'.info.liab_transfer
                        /\ logs[i].asset_transfer = last'.info.asset_transfer
           /\ (last'.op \in {"staking_options_exercise", "staking_options_liq"}
               /\ last'.status = "Ok")
                => \A a \in Accounts, t \in Tokens :
                     account'[a].tokens[t] /= account[a].tokens[t]
                         => balance_records(a, t) /= {}]_vars

\* C20 witness: a liquidation has committed with a transfer that freed a position
\* of the liqee, and emitted its five records.
C20_Witness ==
    /\ LiqCommitted
    /\ last.info.liab_transfer > 0
    /\ Len(last.info.logs) = 5
    /\ \/ ~account[last.ix.liqee].tokens[last.ix.asset_token_index].active
       \/ ~account[last.ix.liqee].tokens[last.ix.liab_token_index].active

\* C21: after a committed liquidation the liqee's balance of the liability token
\* is zero or less and its balance of the asset token is zero or more.
C21_NoOvershoot ==
    LiqCommitted =>
        /\ balance(last.ix.liqee, last.ix.liab_token_index) <= 0
        /\ balance(last.ix.liqee, last.ix.asset_token_index) >= 0

\* C21 witness: a liquidation has committed with the transfer that the liqee's
\* asset balance could pay for, and left the liqee no asset.
C21_Witness ==
    /\ LiqCommitted
    /\ last.info.liab_transfer > 0
    /\ last.info.liab_transfer = last.info.liab_possible
    /\ balance(last.ix.liqee, last.ix.asset_token_index) = 0
    /\ balance(last.ix.liqee, last.ix.liab_token_index) < 0

\* C22: a committed liquidation has liab_transfer and asset_transfer of zero or
\* more; a liquidation of a liqee whose Init health was positive, or called with
\* a negative max_liab_transfer, neither lowers the liqee's balance of the
\* liability token nor raises its balance of the asset token.
C22_NoReverseTransfer ==
    [][\A liqee \in Accounts :
         (/\ last'.op = "staking_options_liq"
          /\ last'.ix.liqee = liqee
          /\ "liab_transfer" \in DOMAIN last'.info)
         => LET liab == last'.ix.liab_token_index
                asset == last'.ix.asset_token_index
            IN  /\ last'.status = "Ok"
                      => /\ last'.info.liab_transfer >= 0
                         /\ last'.info.asset_transfer >= 0
                /\ (last'.info.liqee_liq_end_health > 0 \/ last'.ix.max_liab_transfer < 0)
                      => /\ native(account'[liqee].tokens[liab], bank'[liab])
                              >= native(account[liqee].tokens[liab], bank[liab])
                         /\ native(account'[liqee].tokens[asset], bank'[asset])
                              <= native(account[liqee].tokens[asset], bank[asset])]_vars

\* C22 witness: a liquidation called with a negative max_liab_transfer reached
\* the sizing with a negative liab_transfer and was rejected by the ledger.
C22_Witness ==
    /\ last.op = "staking_options_liq"
    /\ "liab_transfer" \in DOMAIN last.info
    /\ last.ix.max_liab_transfer < 0
    /\ last.info.liab_transfer < 0
    /\ last.info.asset_transfer < 0
    /\ last.status = "LedgerError"

\* C23: after a committed exercise on an account that is not in a health region,
\* the Init health of the adjusted cache that the health check compared equals
\* the Init health computed from the positions the exercise left.
C23_PostExerciseHealthIsTrue ==
    (ExerciseCommitted /\ ~account[last.ix.account].in_health_region)
        => last.info.post_init_health = compute_health(account[last.ix.account])

\* C23 witness: an exercise whose quote withdrawal was charged a loan origination
\* fee has committed on an account that is not in a health region.
C23_Witness ==
    /\ ExerciseCommitted
    /\ ~account[last.ix.account].in_health_region
    /\ last.info.loan_origination_fee > 0

\* C24: after a committed liquidation the liqee's health cache, as adjusted,
\* holds for the asset and the liability token the native balances of the
\* liqee's positions, and its Init health is that of a cache built anew from the
\* liqee's positions.
C24_LiqeeCacheTracksBalances ==
    LiqCommitted =>
        /\ \A t \in {last.ix.asset_token_index, last.ix.liab_token_index} :
             last.info.liqee_health_cache[t].balance = balance(last.ix.liqee, t)
        /\ health_init(last.info.liqee_health_cache)
               = health_init(new_health_cache(account[last.ix.liqee]))

\* C24 witness: a liquidation has committed in which the liqee's asset balance
\* fell by more than asset_transfer, the remainder being dusted.
C24_Witness ==
    /\ LiqCommitted
    /\ last.info.asset_transfer > 0
    /\ bank[last.ix.asset_token_index].dust > 0
    /\ ~account[last.ix.liqee].tokens[last.ix.asset_token_index].active
    /\ last.info.liqee_health_cache[last.ix.asset_token_index].balance = 0

C26_ExerciseStepOrder ==
    [][\A a \in Accounts :
         (/\ last'.op = "staking_options_exercise"
          /\ last'.ix.account = a)
         => /\ "pre_init_health" \in DOMAIN last'.info
                  => last'.info.pre_init_health = compute_health(account[a])
            /\ last'.dirty
                  => /\ "vault_check" \in DOMAIN last'.info
                     /\ last'.info.vault_check = "Ok"
            /\ last'.status = "CpiError"
                  => /\ ~last'.dirty
                     /\ UNCHANGED <<account, bank, vault>>
            /\ last'.status = "Ok"
                  => \E wrapping \in BOOLEAN :
                       vault_deltas_check(vault, vault', last'.ix.amount, last'.ix.strike,
                                          staking_options_state.lot_size, wrapping) = "Ok"]_vars

\* C26 witness: an exercise was rejected by the check of the vault amounts after
\* the external call, with no position changed.
C26_Witness ==
    /\ last.op = "staking_options_exercise"
    /\ "vault_check" \in DOMAIN last.info
    /\ last.info.vault_check = "StakingOptionsError"
    /\ last.status = "StakingOptionsError"
    /\ ~last.cpi_exact
    /\ ~last.dirty

\* C27: an exercise that presents a base, quote or option vault other than the
\* bank's, or a StakingOptions state other than the option bank's, or whose
\* option bank records no StakingOptions state, is rejected before the external
\* call: it has not reached the check of the vault amounts, and nothing changes.
C27_BindingValidation ==
    [][(/\ last'.op = "staking_options_exercise"
        /\ \/ bank[OPTION].staking_options_state = DefaultKey
           \/ bank[OPTION].staking_options_state /= last'.ix.staking_options_state
           \/ \E t \in Tokens :
                bank[t].vault /= (IF t = BASE THEN last'.ix.base_vault
                                  ELSE IF t = QUOTE THEN last'.ix.quote_vault
                                  ELSE last'.ix.option_vault))
       => /\ last'.status \notin {"Ok", "Panic", "CpiError"}
          /\ "vault_check" \notin DOMAIN last'.info
          /\ ~last'.dirty
          /\ UNCHANGED <<account, bank, vault>>]_vars

\* C27 witness: an exercise on an option bank that records no StakingOptions
\* state was rejected.
C27_Witness ==
    /\ last.op = "staking_options_exercise"
    /\ bank[OPTION].staking_options_state = DefaultKey
    /\ ~account[last.ix.account].frozen
    /\ last.status = "RequireKeysNeqViolated"

\* C28: after a committed exercise the account's balance of the option token is
\* zero or more, and an exercise of more options than the account held does not
\* commit.
C28_OptionsNeverBorrowed ==
    [][\A a \in Accounts :
         (/\ last'.op = "staking_options_exercise"
          /\ last'.ix.account = a
          /\ last'.status = "Ok")
         => /\ native(account'[a].tokens[OPTION], bank'[OPTION]) >= 0
            /\ I80F48_from(last'.ix.amount) <= native(account[a].tokens[OPTION], bank[OPTION])]_vars

\* C28 witness: an exercise of all the options an account held has committed and
\* left the account no option.
C28_Witness ==
    /\ ExerciseCommitted
    /\ last.ix.amount > 0
    /\ balance(last.ix.account, OPTION) = 0
    /\ balance(last.ix.account, BASE) > 0

\* C29: in every state a token position that is not active has an indexed
\* position, and so a native balance, of zero; and a committed liquidation that
\* repaid all the liqee owed leaves the liqee's liability position not active.
C29_DeactivationOnlyAtZero ==
    /\ [](\A a \in Accounts, t \in Tokens :
            ~account[a].tokens[t].active => account[a].tokens[t].indexed_position = 0)
    /\ [][\A liqee \in Accounts :
            (/\ last'.op = "staking_options_liq"
             /\ last'.status = "Ok"
             /\ last'.ix.liqee = liqee
             /\ native(account[liqee].tokens[last'.ix.liab_token_index],
                       bank[last'.ix.liab_token_index]) < 0
             /\ native(account'[liqee].tokens[last'.ix.liab_token_index],
                       bank'[last'.ix.liab_token_index]) = 0)
            => ~account'[liqee].tokens[last'.ix.liab_token_index].active]_vars

\* C29 witness: a liquidation has committed that repaid all the liqee owed, and
\* the liqee's liability position is not active.
C29_Witness ==
    /\ LiqCommitted
    /\ last.info.liab_transfer > 0
    /\ last.info.liab_transfer = -last.info.liqee_liab_native
    /\ ~account[last.ix.liqee].tokens[last.ix.liab_token_index].active
    /\ account[last.ix.liqee].tokens[last.ix.liab_token_index].indexed_position = 0

\* C30: a committed exercise had products amount * strike and amount * lot_size
\* within u64, and its external call had left the base vault no lower and the
\* quote and option vaults no higher than before.
C30_NoWrappedArithmetic ==
    [][(last'.op = "staking_options_exercise" /\ last'.status = "Ok")
       => /\ last'.ix.amount * last'.ix.strike < U64_MODULUS
          /\ last'.ix.amount * staking_options_state.lot_size < U64_MODULUS
          /\ vault'[BASE] >= vault[BASE]
          /\ vault'[QUOTE] <= vault[QUOTE]
          /\ vault'[OPTION] <= vault[OPTION]]_vars

\* C30 witness: an exercise whose product amount * strike exceeds u64 has ended in
\* a panic of the overflow check.
C30_Witness ==
    /\ last.op = "staking_options_exercise"
    /\ last.ix.amount * last.ix.strike >= U64_MODULUS
    /\ last.status = "Panic"

\* ------------------------------------------------------------ C31
\* The fields of an account other than its token positions that a liquidation
\* could touch: the being-liquidated marker, the frozen flag, the health-region
\* flag and the owner and delegate.
account_flags(acct) ==
    <<acct.being_liquidated, acct.frozen, acct.in_health_region, acct.owner, acct.delegate>>

\* C31: across any staking_options_liq call, committed or aborted, no account's
\* being-liquidated marker, frozen flag, owner or delegate changes; an account
\* that is neither the liqor nor the liqee is unchanged, and of the liqor and the
\* liqee only the token positions of the asset and the liab token index change.
C31_LiqFrame ==
    [][last'.op = "staking_options_liq" =>
          \A a \in Accounts :
              /\ account_flags(account'[a]) = account_flags(account[a])
              /\ a \notin {last'.ix.liqor, last'.ix.liqee} => account'[a] = account[a]
              /\ \A t \in Tokens \ {last'.ix.asset_token_index, last'.ix.liab_token_index} :
                     account'[a].tokens[t] = account[a].tokens[t]]_vars

\* A liquidation that committed a transfer: the positions of both accounts were
\* written, and the liqee is not marked as being liquidated.
C31_Witness ==
    /\ last.op = "staking_options_liq"
    /\ last.status = "Ok"
    /\ last.dirty
    /\ last.info.liab_transfer > 0
    /\ last.info.asset_transfer > 0
    /\ ~account[last.ix.liqee].being_liquidated
    /\ ~account[last.ix.liqor].being_liquidated

\* ------------------------------------------------------------ C32
\* C32: across any perp_edit_market call, the fields name, group, bids, asks,
\* event_queue, quote_lot_size, base_lot_size, long_funding, short_funding,
\* funding_last_updated, open_interest, seq_num, fees_accrued, bump,
\* perp_market_index and quote_token_index are unchanged; in a call that returns
\* Ok each field with a parameter holds the parameter's value (converted, for
\* an f32) if one was passed and its old value if none was; a call that fails
\* and a call with every parameter absent leave the market unchanged.
C32_EditFrame ==
    [][last'.op = "perp_edit_market" =>
          LET opt(f) == last'.ix.args[f \o "_opt"]
          IN  /\ \A f \in UnchangedFields : perp_market'[f] = perp_market[f]
              /\ last'.status = "Ok" =>
                    /\ \A f \in F32Fields :
                           perp_market'[f] = IF opt(f).some THEN from_num(opt(f).v, TRUE).v
                                             ELSE perp_market[f]
                    /\ \A f \in PlainFields :
                           perp_market'[f] = IF opt(f).some THEN opt(f).v
                                             ELSE perp_market[f]
              /\ last'.status /= "Ok" => perp_market' = perp_market
              /\ (\A f \in F32Fields \cup PlainFields : ~opt(f).some) =>
                     perp_market' = perp_market]_vars

\* An edit of the registered market that passed the maker fee alone, as the f32
\* 1.015: the maker fee is the nearest fixed-point number, and every other field
\* is as registered.
C32_Witness ==
    /\ last.op = "perp_edit_market"
    /\ last.status = "Ok"
    /\ steps = 1
    /\ last.ix.args = [NoArgs EXCEPT !.maker_fee_opt = Some(F32(1015))]
    /\ perp_market =
           [RegisteredMarket(DefaultRegistration) EXCEPT !.maker_fee = FP + 2]

====
